---- MODULE Spec2Model ----
(***************************************************************************)
(* Model of Photometry/QuaoarRingOccs_v01-AAS-noplot.py: the ring-segment  *)
(* aperture builder RingSeg_ap, the diffraction propagator occ_lc, the     *)
(* baseline normalisation and the module-level script that runs them.      *)
(*                                                                         *)
(* Numbers.                                                                *)
(*   - the lengths of RingSeg_ap (lam_km, gridSz, FOV, the column offsets, *)
(*     wid2) and the intensities of the normalisation are IEEE-754         *)
(*     binary64 floats, as in the program: a float is the record           *)
(*     [sgn, man, exp] of its sign, its 53-bit mantissa and its exponent,  *)
(*     and +, *, /, np.sqrt and the comparisons are the correctly rounded  *)
(*     operations on them, computed on natural numbers of any size;        *)
(*   - the intensities of occ_lc come out of np.exp and scipy's fft2,      *)
(*     whose rounding the numerical libraries settle and this program does *)
(*     not: the state holds for each bin the record [val, tol] of the      *)
(*     exact intensity val and of a bound tol on the distance of the bin's *)
(*     float from it, and occ_lc(ap) is the set of the arrays of floats    *)
(*     within these bounds. The exact complex numbers of the transform     *)
(*     are elements of Z[z]/(z^L + 1), z the primitive 2L-th root of unity *)
(*     exp(i*pi/L), kept as the tuple of the L integer coefficients        *)
(*     <<c_0, ..., c_(L-1)>> of the value Sum c_j * exp(i*pi*j/L).         *)
(* Arrays are functions over 0-based index ranges, as in numpy.            *)
(***************************************************************************)
EXTENDS Integers, Sequences, FiniteSets, TLC

\* Bounds of the model.
MaxNpts == 5
MaxWid == 3
NormCols == 3
NormWin == 2
MaxNorm == 2
MaxClock == 2

\* Input sets of the callers.
LamSet == {1, 3}
DSet == {1000000000, 1500000000}
TVals == {0, 1}
RowCounts == {1, 2}

\* The sides npts of the calls of RingSeg_ap: the small ones, and 8.
NptsSet == (1..MaxNpts) \cup {8}

VARIABLES
    pc,       \* position of the caller of the library functions
    wid2,     \* the module-level name wid2 (km), which the script reassigns
    args,     \* arguments of the last call of RingSeg_ap
    ret,      \* what the last call of RingSeg_ap produced
    apF,      \* the aperture the caller holds
    occ,      \* the last call of occ_lc: its outcome and the bins of its result
    nfield,   \* normalisation: the intensity field being normalised
    nrow,     \* normalisation: the row the baseline is taken from
    nwin,     \* normalisation: the end of the baseline window 0:nwin
    nbg,      \* normalisation: the baselines divided by so far
    nprev,    \* normalisation: the field before the last division
    spc,      \* script: the statement block to run next
    glob,     \* script: the module-level names
    run,      \* script: which of the three timed runs is under way
    now       \* script: the last value time.time() gave

libVars == <<pc, args, ret, apF, occ>>
normVars == <<nfield, nrow, nwin, nbg, nprev>>
scriptVars == <<spc, glob, run, now>>
vars == <<libVars, wid2, normVars, scriptVars>>

---------------------------------------------------------------------------
\* Natural numbers of any size: the tuple of the digits in base 2^15, least
\* significant first, without leading zero digits (0 is << >>).

LimbBits == 15

Base == 32768

RECURSIVE Pow2(_)
Pow2(k) == IF k = 0 THEN 1 ELSE 2 * Pow2(k - 1)

RECURSIVE BNorm(_)
BNorm(a) ==
    IF a = << >> THEN << >>
    ELSE IF a[Len(a)] = 0 THEN BNorm(SubSeq(a, 1, Len(a) - 1)) ELSE a

RECURSIVE BFromInt(_)
BFromInt(n) == IF n = 0 THEN << >> ELSE <<n % Base>> \o BFromInt(n \div Base)

RECURSIVE BitsOf(_)
BitsOf(n) == IF n = 0 THEN 0 ELSE 1 + BitsOf(n \div 2)

BitLen(a) == IF a = << >> THEN 0 ELSE LimbBits * (Len(a) - 1) + BitsOf(a[Len(a)])

\* -1, 0 or 1 as a < b, a = b or a > b, from digit i downwards.
RECURSIVE BCmpAt(_, _, _)
BCmpAt(a, b, i) ==
    IF i = 0 THEN 0
    ELSE IF a[i] < b[i] THEN -1
    ELSE IF a[i] > b[i] THEN 1
    ELSE BCmpAt(a, b, i - 1)

BCmp(a, b) ==
    IF Len(a) < Len(b) THEN -1
    ELSE IF Len(a) > Len(b) THEN 1
    ELSE BCmpAt(a, b, Len(a))

BDigit(a, i) == IF i <= Len(a) THEN a[i] ELSE 0

RECURSIVE BAddAt(_, _, _, _)
BAddAt(a, b, i, carry) ==
    IF i > Len(a) /\ i > Len(b)
    THEN IF carry = 0 THEN << >> ELSE <<carry>>
    ELSE LET s == BDigit(a, i) + BDigit(b, i) + carry
         IN  <<s % Base>> \o BAddAt(a, b, i + 1, s \div Base)

BAdd(a, b) == BAddAt(a, b, 1, 0)

\* a - b for a >= b
RECURSIVE BSubAt(_, _, _, _)
BSubAt(a, b, i, borrow) ==
    IF i > Len(a) THEN << >>
    ELSE LET s == a[i] - BDigit(b, i) - borrow
         IN  <<s % Base>> \o BSubAt(a, b, i + 1, IF s < 0 THEN 1 ELSE 0)

BSub(a, b) == BNorm(BSubAt(a, b, 1, 0))

\* a * k for a digit k
RECURSIVE BMulSmallAt(_, _, _, _)
BMulSmallAt(a, k, i, carry) ==
    IF i > Len(a)
    THEN IF carry = 0 THEN << >> ELSE <<carry>>
    ELSE LET s == a[i] * k + carry
         IN  <<s % Base>> \o BMulSmallAt(a, k, i + 1, s \div Base)

BMulSmall(a, k) == IF k = 0 THEN << >> ELSE BMulSmallAt(a, k, 1, 0)

\* a * Base^n
RECURSIVE BShiftLimbs(_, _)
BShiftLimbs(a, n) ==
    IF a = << >> \/ n = 0 THEN a ELSE <<0>> \o BShiftLimbs(a, n - 1)

RECURSIVE BMul(_, _)
BMul(a, b) ==
    IF b = << >> THEN << >>
    ELSE BAdd(BMulSmall(a, b[1]), BShiftLimbs(BMul(a, Tail(b)), 1))

\* Quotient and remainder of the digits i.. of a by a digit d > 0.
RECURSIVE BDivSmallAt(_, _, _)
BDivSmallAt(a, d, i) ==
    IF i > Len(a) THEN [q |-> << >>, r |-> 0]
    ELSE LET hi == BDivSmallAt(a, d, i + 1)
             cur == hi.r * Base + a[i]
         IN  [q |-> <<cur \div d>> \o hi.q, r |-> cur % d]

BDivSmall(a, d) ==
    LET qr == BDivSmallAt(a, d, 1) IN [q |-> BNorm(qr.q), r |-> qr.r]

\* a * 2^s
BShl(a, s) == BShiftLimbs(BMulSmall(a, Pow2(s % LimbBits)), s \div LimbBits)

\* floor(a / 2^s) and a mod 2^s
RECURSIVE BShrAt(_, _, _)
BShrAt(a, p, i) ==
    IF i > Len(a) THEN << >>
    ELSE <<(a[i] \div p) + (BDigit(a, i + 1) % p) * (Base \div p)>> \o BShrAt(a, p, i + 1)

BShr(a, s) ==
    LET n == s \div LimbBits
    IN  IF n >= Len(a) THEN << >>
        ELSE BNorm(BShrAt(SubSeq(a, n + 1, Len(a)), Pow2(s % LimbBits), 1))

BLow(a, s) ==
    LET n == s \div LimbBits
    IN  IF n >= Len(a) THEN a
        ELSE BNorm(SubSeq(a, 1, n) \o <<a[n + 1] % Pow2(s % LimbBits)>>)

\* The largest digit k <= est with d * k <= cur.
RECURSIVE BQuotFix(_, _, _)
BQuotFix(cur, d, est) ==
    IF BCmp(BMulSmall(d, est), cur) > 0 THEN BQuotFix(cur, d, est - 1) ELSE est

\* The digit floor(cur / d) for cur < d * Base and a d whose top digit is at
\* least Base / 2: the quotient of the leading digits, lowered until it fits.
BQuotDigit(cur, d) ==
    LET m == Len(d)
        est == (BDigit(cur, m + 1) * Base + BDigit(cur, m)) \div d[m]
    IN  BQuotFix(cur, d, IF est < Base THEN est ELSE Base - 1)

\* Long division of the digits i..1 of a by d, r the remainder of the
\* digits above i.
RECURSIVE BDivAt(_, _, _, _)
BDivAt(a, d, i, r) ==
    IF i = 0 THEN [q |-> << >>, r |-> r]
    ELSE LET cur == BNorm(<<a[i]>> \o r)
             k == BQuotDigit(cur, d)
             low == BDivAt(a, d, i - 1, BSub(cur, BMulSmall(d, k)))
         IN  [q |-> low.q \o <<k>>, r |-> low.r]

\* Quotient and remainder of a by d > 0.
BDiv(a, d) ==
    LET s == LimbBits - BitsOf(d[Len(d)])
        qr == BDivAt(BShl(a, s), BShl(d, s), Len(BShl(a, s)), << >>)
    IN  [q |-> BNorm(qr.q), r |-> BShr(qr.r, s)]

\* e, once v has been computed.
Then(v, e) == IF v = v THEN e ELSE e

\* floor(sqrt(n)), bit by bit from the top: r holds the bits of the root
\* above bit hi, and BSqrtBits settles the bits hi down to lo, the upper
\* half of them first.
RECURSIVE BSqrtBits(_, _, _, _)
BSqrtBits(n, r, hi, lo) ==
    IF hi < lo THEN r
    ELSE IF hi = lo
    THEN LET t == BAdd(r, BShl(<<1>>, hi))
         IN  IF BCmp(BMul(t, t), n) <= 0 THEN t ELSE r
    ELSE LET mid == (hi + lo) \div 2
             r1 == BSqrtBits(n, r, hi, mid + 1)
         IN  Then(r1, BSqrtBits(n, r1, mid, lo))

BSqrt(n) == BSqrtBits(n, << >>, (BitLen(n) + 1) \div 2, 0)

---------------------------------------------------------------------------
\* IEEE-754 binary64 (the float of Python and numpy's float64): the record
\* [sgn, man, exp] stands for sgn * man * 2^exp with sgn in {-1, 0, 1} and
\* man a natural number of exactly 53 bits (zero is [0, << >>, 0]). Every
\* operation rounds to nearest, ties to even. The values of this program
\* are far from overflow and underflow, which are not modelled.

MantBits == 53

FZero == [sgn |-> 0, man |-> << >>, exp |-> 0]

Sign(k) == IF k < 0 THEN -1 ELSE IF k = 0 THEN 0 ELSE 1

\* sgn * n * 2^e rounded to a float; inexact says that the true value lies
\* strictly between n * 2^e and (n + 1) * 2^e.
FRound(sgn, n, e, inexact) ==
    LET len == BitLen(n)
    IN  IF sgn = 0 \/ len = 0 THEN FZero
        ELSE IF len <= MantBits
        THEN [sgn |-> sgn, man |-> BShl(n, MantBits - len), exp |-> e - (MantBits - len)]
        ELSE LET s == len - MantBits
                 q == BShr(n, s)
                 c == BCmp(BLow(n, s), BShl(<<1>>, s - 1))
                 up == c > 0 \/ (c = 0 /\ (inexact \/ q[1] % 2 = 1))
                 m == IF up THEN BAdd(q, <<1>>) ELSE q
             IN  IF BitLen(m) > MantBits
                 THEN [sgn |-> sgn, man |-> BShr(m, 1), exp |-> e + s + 1]
                 ELSE [sgn |-> sgn, man |-> m, exp |-> e + s]

\* float(k) for an integer k
FFromInt(k) == FRound(Sign(k), BFromInt(IF k < 0 THEN 0 - k ELSE k), 0, FALSE)

FMul(a, b) ==
    Then(a, Then(b, FRound(a.sgn * b.sgn, BMul(a.man, b.man), a.exp + b.exp, FALSE)))

\* a / float(k) for an integer k in 1..Base-1
FDivInt(a, k) ==
    LET qr == BDivSmall(BShl(a.man, 2 * LimbBits), k)
    IN  FRound(a.sgn, qr.q, a.exp - 2 * LimbBits, qr.r # 0)

\* np.sqrt(a) for a >= 0
FSqrt(a) ==
    IF a.sgn = 0 THEN FZero
    ELSE LET odd == a.exp % 2
             n == BShl(a.man, 4 * LimbBits + odd)
             r == BSqrt(n)
         IN  Then(r, FRound(1, r, (a.exp - odd - 4 * LimbBits) \div 2, BMul(r, r) # n))

\* inf and nan
FInf == [sgn |-> 1, man |-> << >>, exp |-> 1]

FNaN == [sgn |-> 0, man |-> << >>, exp |-> 1]

IsNaN(a) == a = FNaN

IsInf(a) == a = FInf

\* -1, 0 or 1 as a < b, a = b or a > b, for two finite floats
FCmp(a, b) ==
    IF a.sgn # b.sgn THEN (IF a.sgn < b.sgn THEN -1 ELSE 1)
    ELSE IF a.sgn = 0 THEN 0
    ELSE IF a.exp # b.exp THEN (IF a.exp < b.exp THEN 0 - a.sgn ELSE a.sgn)
    ELSE a.sgn * BCmp(a.man, b.man)

\* a + b for two finite floats
FAdd(a, b) ==
    IF a.sgn = 0 THEN b
    ELSE IF b.sgn = 0 THEN a
    ELSE LET e == IF a.exp < b.exp THEN a.exp ELSE b.exp
             x == BShl(a.man, a.exp - e)
             y == BShl(b.man, b.exp - e)
             c == BCmp(x, y)
         IN  IF a.sgn = b.sgn THEN FRound(a.sgn, BAdd(x, y), e, FALSE)
             ELSE IF c = 0 THEN FZero
             ELSE IF c > 0 THEN FRound(a.sgn, BSub(x, y), e, FALSE)
             ELSE FRound(b.sgn, BSub(y, x), e, FALSE)

\* a / b for two finite floats, b # 0
FDiv(a, b) ==
    IF a.sgn = 0 THEN FZero
    ELSE LET qr == BDiv(BShiftLimbs(a.man, 4), b.man)
         IN  Then(qr, FRound(a.sgn * b.sgn, qr.q, a.exp - b.exp - 4 * LimbBits, qr.r # << >>))

\* np.abs(x) <= y for a float x and a float y >= 0
AbsLE(x, y) ==
    IF x.sgn = 0 THEN TRUE
    ELSE IF y.sgn = 0 THEN FALSE
    ELSE IF x.exp # y.exp THEN x.exp < y.exp
    ELSE BCmp(x.man, y.man) <= 0

\* The float literals 1.0 (np.ones) and 1e-9.
FOne == [sgn |-> 1, man |-> <<0, 0, 0, 128>>, exp |-> -52]

FNano == [sgn |-> 1, man |-> <<22165, 20557, 14383, 137>>, exp |-> -82]

\* 0.5 * w for an integer w: the product with a power of two is exact.
Half(w) == LET f == FFromInt(w) IN IF f.sgn = 0 THEN f ELSE [f EXCEPT !.exp = @ - 1]

---------------------------------------------------------------------------
\* The transmission function t_r handed to RingSeg_ap: a table over
\* [-w/2, +w/2] (as interp1d(wVal, ...) over wVal = linspace(-w/2, w/2)),
\* which raises when asked outside the table. Its value is mid for
\* |x| <= cw/2, and neg or pos on the two sides beyond.
Profiles ==
    [w : 1..MaxWid, cw : 0..(MaxWid - 1), neg : TVals, mid : TVals, pos : TVals]

TrDefined(t_r, x) == AbsLE(x, Half(t_r.w))

TrVal(t_r, x) ==
    IF AbsLE(x, Half(t_r.cw)) THEN t_r.mid
    ELSE IF x.sgn < 0 THEN t_r.neg ELSE t_r.pos

\* interp1d's bounds check: one value outside the table fails the whole call.
TrRaises(t_r, xs) == \E x \in xs : ~TrDefined(t_r, x)

---------------------------------------------------------------------------
\* RingSeg_ap(lam, D, npts, wid, t_r)

\* The tuples <<f[lo], ..., f[hi]>> and <<f[0], ..., f[n-1]>>.
RECURSIVE TupRange(_, _, _)
TupRange(f, lo, hi) ==
    IF lo > hi THEN << >>
    ELSE IF lo = hi THEN <<f[lo]>>
    ELSE LET mid == (lo + hi) \div 2
         IN  TupRange(f, lo, mid) \o TupRange(f, mid + 1, hi)

Tup(f, n) == TupRange(f, 0, n - 1)

\* lam_km = lam * 1e-9
lam_km(lam) == FMul(FFromInt(lam), FNano)

\* gridSz = np.sqrt(lam_km * D/npts)
gridSzOf(lam, D, npts) == FSqrt(FDivInt(FMul(lam_km(lam), FFromInt(D)), npts))

\* Variant: the field of view without the factor npts.
FOVOf_nonpts(lam, D, npts) == FSqrt(FMul(lam_km(lam), FFromInt(D)))

\* FOV = np.sqrt(lam_km * D * npts)
FOVOf(lam, D, npts) == FSqrt(FMul(FMul(lam_km(lam), FFromInt(D)), FFromInt(npts)))

\* Variant: the column values are not centred.
npts2Of_zero(npts) == 0

npts2Of(npts) == npts \div 2

\* Variant: the half width is read from the module-level wid2.
wid2Of_global(wid) == FFromInt(wid2)

wid2Of(wid) == Half(wid)

xvOf(npts, gridSz) ==
    LET xvT == Tup([c \in 0..(npts - 1) |-> FMul(FFromInt(c - npts2Of(npts)), gridSz)], npts)
    IN  [c \in 0..(npts - 1) |-> xvT[c + 1]]

yvOf(npts) == [r \in 0..(npts - 1) |-> FOne]

\* Variant: np.outer(xv, yv), the transposed grid.
gridAt_transposed(yv, xv, r, c) == FMul(yv[c], xv[r])

\* np.outer(yv, xv)[r][c]
gridAt(yv, xv, r, c) == FMul(yv[r], xv[c])

\* grid = np.outer(yv, xv) for the xv and yv of npts and gridSz, as the
\* tuple of its rows: grid[r][c] is at gridOf(npts, gridSz)[r + 1][c + 1].
gridOf(npts, gridSz) ==
    LET xv == xvOf(npts, gridSz)
        yv == yvOf(npts)
    IN  Then(xv, Tup([r \in 0..(npts - 1) |->
                        Tup([c \in 0..(npts - 1) |-> gridAt(yv, xv, r, c)], npts)], npts))

\* Variant: the band without its boundary.
inApAt_strict(x, w2) == ~AbsLE(w2, x)

inApAt(x, w2) == AbsLE(x, w2)

\* Variant: the exception of t_r is swallowed and the cells keep 1.0.
RingResult_swallow(t_r, npts, grid, inAp, FOV, gridSz) ==
    LET sel == {grid[rc[1]][rc[2]] :
                    rc \in {p \in (0..(npts - 1)) \X (0..(npts - 1)) : inAp[p[1]][p[2]]}}
    IN  [status |-> "returned", exc |-> "",
         ap |-> [r \in 0..(npts - 1) |-> [c \in 0..(npts - 1) |->
                   IF inAp[r][c] /\ TrDefined(t_r, grid[r][c])
                   THEN TrVal(t_r, grid[r][c]) ELSE 1]],
         FOV |-> FOV, gridSz |-> gridSz, queried |-> sel]

\* The end of RingSeg_ap: t_r is called once on all in-band offsets; if it
\* raises, the exception leaves RingSeg_ap and nothing is returned.
RingResult(t_r, npts, grid, inAp, FOV, gridSz) ==
    LET sel == {grid[rc[1]][rc[2]] :
                    rc \in {p \in (0..(npts - 1)) \X (0..(npts - 1)) : inAp[p[1]][p[2]]}}
    IN  IF TrRaises(t_r, sel)
        THEN [status |-> "raised", exc |-> "ValueError", ap |-> << >>,
              FOV |-> FOV, gridSz |-> gridSz, queried |-> sel]
        ELSE [status |-> "returned", exc |-> "",
              ap |-> [r \in 0..(npts - 1) |-> [c \in 0..(npts - 1) |->
                        IF inAp[r][c] THEN TrVal(t_r, grid[r][c]) ELSE 1]],
              FOV |-> FOV, gridSz |-> gridSz, queried |-> sel]

\* RingSeg_ap from the half width on, given the rows of the grid.
RingBand(npts, wid, t_r, gridT, FOV, gridSz) ==
    LET w2 == wid2Of(wid)
        grid == [r \in 0..(npts - 1) |-> [c \in 0..(npts - 1) |-> gridT[r + 1][c + 1]]]
        inAp == [r \in 0..(npts - 1) |-> [c \in 0..(npts - 1) |-> inApAt(grid[r][c], w2)]]
    IN  RingResult(t_r, npts, grid, inAp, FOV, gridSz)

RingSeg_ap(lam, D, npts, wid, t_r) ==
    LET gridSz == gridSzOf(lam, D, npts)
        FOV == FOVOf(lam, D, npts)
        gridT == gridOf(npts, gridSz)
    IN  Then(gridSz, Then(FOV, Then(gridT,
            RingBand(npts, wid, t_r, gridT, FOV, gridSz))))

---------------------------------------------------------------------------
\* The exact complex numbers of the transform: elements of Z[z]/(z^L + 1),
\* z = exp(i*pi/L),
\* as tuples: the coefficient of z^j is at position j + 1.

RECURSIVE SumF(_, _)
SumF(f, n) == IF n = 0 THEN 0 ELSE f[n - 1] + SumF(f, n - 1)

\* k * z^e for an integer k.
ZUnit(L, k, e) ==
    LET e2 == e % (2 * L)
    IN  Tup([j \in 0..(L - 1) |->
                IF e2 = j THEN k ELSE IF e2 = j + L THEN 0 - k ELSE 0], L)

\* The coefficient of z^j in a * z^e.
ZRotAt(L, a, e, j) ==
    LET s == (j - e) % (2 * L) IN IF s < L THEN a[s + 1] ELSE 0 - a[s - L + 1]

ZMul(L, a, b) ==
    Tup([j \in 0..(L - 1) |->
            SumF([s \in 0..(L - 1) |->
                     IF s <= j THEN a[s + 1] * b[j - s + 1]
                     ELSE 0 - a[s + 1] * b[j - s + L + 1]], L)], L)

\* np.conj
ZConj(L, a) == Tup([j \in 0..(L - 1) |-> IF j = 0 THEN a[1] ELSE 0 - a[L - j + 1]], L)

\* np.real: (a + conj(a)) / 2
ZReal(L, a) == LET b == ZConj(L, a) IN Tup([j \in 0..(L - 1) |-> (a[j + 1] + b[j + 1]) \div 2], L)

---------------------------------------------------------------------------
\* occ_lc(ap)

Rows(a) == Cardinality(DOMAIN a)

Cols(a) == IF Rows(a) = 0 THEN 0 ELSE Cardinality(DOMAIN a[0])

Max(a, b) == IF a >= b THEN a ELSE b

n2Of(npts) == npts \div 2

\* (y, x) = np.indices((npts, npts)) - 1.0*n2
yAt(npts, r, c) == r - n2Of(npts)

xAt(npts, r, c) == c - n2Of(npts)

\* The exact value of eTerm[r][c] = exp((pi*1j/npts) * (y**2 + x**2)), which
\* np.exp returns rounded to complex128, in the ring of exp(i*pi/L).
eTermAt(L, npts, r, c) ==
    ZUnit(L, 1, (L \div npts) * (yAt(npts, r, c) * yAt(npts, r, c)
                                  + xAt(npts, r, c) * xAt(npts, r, c)))

\* Variant: only a square aperture is accepted.
Broadcasts_square(R, C) == C = R

\* numpy's broadcasting of ap (R x C) against eTerm (R x R)
Broadcasts(R, C) == C = R \/ C = 1 \/ R = 1

\* The exact value of M = ap * eTerm, of shape R x Max(C, R) when R > 1 and
\* 1 x C when R = 1.
MAt(L, ap, r, c) ==
    LET npts == Rows(ap)
        v == ap[r][IF Cols(ap) = 1 THEN 0 ELSE c]
        e == eTermAt(L, npts, r, IF npts = 1 THEN 0 ELSE c)
    IN  Tup([j \in 0..(L - 1) |-> v * e[j + 1]], L)

\* The exact value of fft2(M)[ky][kx], which fft2 returns rounded to
\* complex128: Sum_r Sum_c M[r][c] * exp(-2*pi*i*(ky*r/R + kx*c/C)).
fft2At(L, M, R, C, ky, kx) ==
    Tup([j \in 0..(L - 1) |->
            SumF([i \in 0..(R * C - 1) |->
                     ZRotAt(L, M[i \div C][i % C],
                            0 - 2 * (ky * (i \div C) * (L \div R)
                                     + kx * (i % C) * (L \div C)), j)], R * C)], L)

\* np.roll(a, shift, 0) and np.roll(a, shift, 1)
roll0(a, shift, R, C) == [r \in 0..(R - 1) |-> [c \in 0..(C - 1) |-> a[(r - shift) % R][c]]]

roll1(a, shift, R, C) == [r \in 0..(R - 1) |-> [c \in 0..(C - 1) |-> a[r][(c - shift) % C]]]

\* Variant: the shift along axis 1 is missing.
recentre_axis0(pObs, n2, R, C) == roll0(pObs, n2, R, C)

recentre(pObs, n2, R, C) == roll1(roll0(pObs, n2, R, C), n2, R, C)

\* np.real(E * np.conj(E)), the exact value
Intensity(L, E) == ZReal(L, ZMul(L, E, ZConj(L, E)))

\* The sides of M = ap * eTerm and of its transform.
SideR(ap) == Rows(ap)

SideC(ap) == IF Rows(ap) = 1 THEN Cols(ap) ELSE Rows(ap)

\* The exact intensities np.real(E_obs * np.conj(E_obs)) of the bins of
\* E_obs = fft2(ap * eTerm), as a tuple of rows.
Transform(ap) ==
    LET R == SideR(ap)
        C == SideC(ap)
        L == Max(R, C)
        MT == Tup([r \in 0..(R - 1) |-> Tup([c \in 0..(C - 1) |-> MAt(L, ap, r, c)], C)], R)
        M == [r \in 0..(R - 1) |-> [c \in 0..(C - 1) |-> MT[r + 1][c + 1]]]
    IN  Then(MT, Tup([ky \in 0..(R - 1) |-> Tup([kx \in 0..(C - 1) |->
                    Intensity(L, fft2At(L, M, R, C, ky, kx))], C)], R))

\* np.exp, fft2 and the complex products work in complex128, and the order
\* of their operations, so the rounding of their results, is settled by the
\* numerical libraries of the installation and not by this program. What the
\* program settles of the float64 intensity p of a bin is the exact
\* intensity v it approximates and a bound on the distance between them.
\* With u = 2^-53, n = Max(R, C) and A the sum of |M| over the R x C cells:
\*   - the argument (pi/npts) * (y**2 + x**2) is at most pi*n/2 and carries
\*     three roundings (pi, the quotient and the product), and np.exp one
\*     more in each part: |eTerm - exact| <= (4n + 2) u;
\*   - ap * eTerm rounds once more, and a transform of R x C points, by
\*     butterflies or by plain sums, adds at most (2n + 10) u A:
\*     |E_obs - exact| <= 19 n u A, with |E_obs| <= A;
\*   - E * conj(E) rounds two products and a sum:
\*     |p - v| <= 2 A (19 n u A) + 2 u A^2 + ... <= 40 n u A^2.
\* TolFactor leaves a margin over the 40.
TolFactor == 64

\* The sum of the cells of M = ap * eTerm in absolute value (|eTerm| = 1).
ApSum(ap) ==
    LET R == SideR(ap)
        C == SideC(ap)
    IN  SumF([i \in 0..(R * C - 1) |->
                 LET v == ap[i \div C][IF Cols(ap) = 1 THEN 0 ELSE i % C]
                 IN  IF v < 0 THEN 0 - v ELSE v], R * C)

\* The bound on |p - v|, in units of 2^-53.
Tolerance(ap) == TolFactor * Max(SideR(ap), SideC(ap)) * ApSum(ap) * ApSum(ap)

\* What the program settles of the result of occ_lc(ap), given the exact
\* intensities PT of its transform: each bin is the record [val, tol] of the
\* exact intensity val and of the bound tol (in units of 2^-53) on the
\* distance of the bin's float from val. np.roll moves the bins as they are.
occ_lcBins(ap, PT) ==
    LET npts == Rows(ap)
        n2 == n2Of(npts)
        R == SideR(ap)
        C == SideC(ap)
        tol == Tolerance(ap)
        pObs == [ky \in 0..(R - 1) |-> [kx \in 0..(C - 1) |->
                    [val |-> PT[ky + 1][kx + 1], tol |-> tol]]]
    IN  IF ~Broadcasts(npts, Cols(ap))
        THEN [status |-> "raised", exc |-> "ValueError", pObs |-> << >>, field |-> << >>]
        ELSE [status |-> "returned", exc |-> "", pObs |-> pObs,
              field |-> recentre(pObs, n2, R, C)]

\* pi and the cosines cos(pi*j/L) as fixed-point numbers: n stands for
\* n / 2^FixBits.
FixBits == 135

PiFix == <<8786, 28787, 23558, 26152, 6296, 12429, 4276, 23202, 4639, 3>>

\* The sums of the terms x^(2k)/(2k)! of even k (pos) and of odd k (neg),
\* from the term of index k on; x2 is x^2.
RECURSIVE CosSeries(_, _, _)
CosSeries(x2, term, k) ==
    IF term = << >> THEN [pos |-> << >>, neg |-> << >>]
    ELSE LET next == BDivSmall(BShr(BMul(term, x2), FixBits), (2 * k + 1) * (2 * k + 2)).q
             rest == CosSeries(x2, next, k + 1)
         IN  IF k % 2 = 0 THEN [rest EXCEPT !.pos = BAdd(term, @)]
             ELSE [rest EXCEPT !.neg = BAdd(term, @)]

\* cos(pi*j/L) for 0 <= 2j <= L
CosFix(L, j) ==
    IF 2 * j = L THEN << >>
    ELSE LET x == BDivSmall(BMulSmall(PiFix, j), L).q
             s == CosSeries(BShr(BMul(x, x), FixBits), BShl(<<1>>, FixBits), 0)
         IN  BSub(s.pos, s.neg)

\* cos(pi*j/L) for 0 <= j < L: its sign and its absolute value
CosAt(L, j) ==
    IF 2 * j <= L THEN [sgn |-> IF 2 * j = L THEN 0 ELSE 1, mag |-> CosFix(L, j)]
    ELSE [sgn |-> -1, mag |-> CosFix(L, L - j)]

\* The real number Sum_j a[j+1] * cos(pi*j/L) that the ring element a with
\* conj(a) = a stands for, as the pair of the sums of its positive and of
\* its negative terms (fixed point).
RECURSIVE ZValue(_, _, _)
ZValue(L, a, j) ==
    IF j = L THEN [pos |-> << >>, neg |-> << >>]
    ELSE LET c == CosAt(L, j)
             k == a[j + 1]
             t == BMul(c.mag, BFromInt(IF k < 0 THEN 0 - k ELSE k))
             rest == ZValue(L, a, j + 1)
         IN  IF c.sgn * k > 0 THEN [rest EXCEPT !.pos = BAdd(t, @)]
             ELSE IF c.sgn * k < 0 THEN [rest EXCEPT !.neg = BAdd(t, @)]
             ELSE rest

\* The float64 values an intensity can have: np.real(E * np.conj(E)) is a
\* sum of two squares, so zero or positive.
F64 ==
    {f \in [sgn : {0, 1}, man : Seq(0..(Base - 1)), exp : Int] :
        \/ f = FZero
        \/ f.sgn = 1 /\ Len(f.man) = 4 /\ BitLen(f.man) = MantBits}

\* The float f lies within the bound of the bin: |f - val| <= tol * 2^-53,
\* compared as integers in units of 2^e0.
Admits(bin, f) ==
    LET L == Len(bin.val)
        v == ZValue(L, bin.val, 0)
        e0 == IF f.sgn # 0 /\ f.exp < 0 - FixBits THEN f.exp ELSE 0 - FixBits
        k == 0 - FixBits - e0
        fi == IF f.sgn = 0 THEN << >> ELSE BShl(f.man, f.exp - e0)
        t == BShl(BFromInt(bin.tol), FixBits - MantBits + k)
        lo == BAdd(fi, BShl(v.neg, k))
        hi == BShl(v.pos, k)
    IN  BCmp(lo, BAdd(hi, t)) <= 0 /\ BCmp(hi, BAdd(lo, t)) <= 0

\* The results occ_lc(ap) can have: the arrays of floats within the bounds
\* of occ_lcBins, recentred, or numpy's ValueError.
occ_lcWithin(ap, bins) ==
    IF bins.status = "raised" THEN {bins}
    ELSE LET R == SideR(ap)
             C == SideC(ap)
             Arrays == [0..(R - 1) -> [0..(C - 1) -> F64]]
         IN  {res \in [status : {"returned"}, exc : {""}, pObs : Arrays, field : Arrays] :
                 /\ \A ky \in 0..(R - 1), kx \in 0..(C - 1) :
                       Admits(bins.pObs[ky][kx], res.pObs[ky][kx])
                 /\ res.field = recentre(res.pObs, n2Of(Rows(ap)), R, C)}

occ_lc(ap) ==
    occ_lcWithin(ap, occ_lcBins(ap, IF Broadcasts(Rows(ap), Cols(ap))
                                    THEN Transform(ap) ELSE << >>))

---------------------------------------------------------------------------
\* A caller of the library.

NoArgs == [lam |-> 0, D |-> 0, npts |-> 0, wid |-> 0,
           t_r |-> [w |-> 0, cw |-> 0, neg |-> 0, mid |-> 0, pos |-> 0]]

NoRet == [status |-> "none", exc |-> "", ap |-> << >>,
          FOV |-> FZero, gridSz |-> FZero, queried |-> {}]

NoOcc == [status |-> "none", exc |-> "", pObs |-> << >>, field |-> << >>]

Wid2Globals == {23, 50}

LibIdle ==
    /\ pc = "idle"
    /\ args = NoArgs
    /\ ret = NoRet
    /\ apF = << >>
    /\ occ = NoOcc

NormIdle ==
    /\ nfield = << >>
    /\ nrow = 0
    /\ nwin = 0
    /\ nbg = << >>
    /\ nprev = << >>

NoGlobals ==
    [wid |-> 0, nRad |-> 0, wValHalf |-> 0, tF |-> 0, widW |-> 0, tF1W |-> 0,
     npts |-> 0, callWid |-> 0, callTable |-> 0, apSide |-> 0, opSide |-> 0,
     bgRow |-> 0, bgWin |-> 0, normalised |-> FALSE, plotRow |-> 0,
     start_time |-> 0, elapsed |-> 0]

ScriptIdle ==
    /\ spc = "off"
    /\ glob = NoGlobals
    /\ run = 0
    /\ now = 0

Init ==
    /\ LibIdle
    /\ wid2 \in Wid2Globals
    /\ NormIdle
    /\ ScriptIdle

\* The grid size, field of view and grid of RingSeg_ap for each wavelength,
\* distance and npts of the callers.
RingGrids ==
    {[lam |-> lam, D |-> D, npts |-> npts,
      gridSz |-> gridSzOf(lam, D, npts), FOV |-> FOVOf(lam, D, npts),
      grid |-> gridOf(npts, gridSzOf(lam, D, npts))] :
        lam \in LamSet, D \in DSet, npts \in NptsSet}

CallRingSeg ==
    /\ pc = "idle"
    /\ \E g \in RingGrids, wid \in 1..MaxWid, t_r \in Profiles :
          /\ args' = [lam |-> g.lam, D |-> g.D, npts |-> g.npts, wid |-> wid, t_r |-> t_r]
          /\ ret' = RingBand(g.npts, wid, t_r, g.grid, g.FOV, g.gridSz)
          /\ pc' = IF ret'.status = "returned" THEN "built" ELSE "failed"
          /\ apF' = ret'.ap
    /\ UNCHANGED <<wid2, occ, normVars, scriptVars>>

\* A caller may also hand occ_lc an array of its own making, of any shape
\* and varying along both axes (u on and above the diagonal, v below it).
CallerApertures ==
    UNION {{[r \in 0..(R - 1) |-> [c \in 0..(C - 1) |-> IF r <= c THEN u ELSE v]] :
                u \in TVals, v \in TVals} :
           R \in 1..MaxNpts, C \in 1..MaxNpts}

CallerAperture ==
    /\ pc = "idle"
    /\ \E a \in CallerApertures : apF' = a
    /\ pc' = "built"
    /\ UNCHANGED <<wid2, args, ret, occ, normVars, scriptVars>>

\* The apertures the calls above can leave with the caller, and the exact
\* intensities of the transform of each.
HeldApertures ==
    {a \in CallerApertures : Broadcasts(Rows(a), Cols(a))}
        \cup ({RingBand(g.npts, wid, t_r, g.grid, g.FOV, g.gridSz).ap :
                   g \in RingGrids, wid \in 1..MaxWid, t_r \in Profiles} \ {<< >>})

Transforms == [a \in HeldApertures |-> Transform(a)]

\* The call of occ_lc(apF): occ' holds the bins that bound its result, the
\* result itself being any one of occ_lc(apF).
CallOccLc ==
    /\ pc = "built"
    /\ occ' = occ_lcBins(apF, IF apF \in HeldApertures THEN Transforms[apF] ELSE << >>)
    /\ pc' = IF occ'.status = "returned" THEN "propagated" ELSE "failed"
    /\ UNCHANGED <<wid2, args, ret, apF, normVars, scriptVars>>

Next == CallRingSeg \/ CallerAperture \/ CallOccLc

Spec == Init /\ [][Next]_vars

\* The calls of RingSeg_ap alone.
NextRing == CallRingSeg

SpecRing == Init /\ [][NextRing]_vars

---------------------------------------------------------------------------
\* The baseline normalisation of the script: bg = np.median(op[row, 0:win]);
\* op = op/bg. Intensities are float64: non-negative, and inf or nan once a
\* baseline of zero has been divided by.

\* a < b for two values that are not nan
FLess(a, b) ==
    IF IsInf(a) THEN FALSE
    ELSE IF IsInf(b) THEN TRUE
    ELSE FCmp(a, b) < 0

\* np.mean of the two middle values: their sum, rounded, over 2.0
Mean2(a, b) ==
    IF IsInf(a) \/ IsInf(b) THEN FInf
    ELSE LET sum == FAdd(a, b) IN IF sum.sgn = 0 THEN sum ELSE [sum EXCEPT !.exp = @ - 1]

\* The k-th smallest entry (k from 1) of a tuple without nan.
Kth(v, k) ==
    LET i == CHOOSE i \in 1..Len(v) :
                 /\ Cardinality({j \in 1..Len(v) : FLess(v[j], v[i])}) < k
                 /\ Cardinality({j \in 1..Len(v) : ~FLess(v[i], v[j])}) >= k
    IN  v[i]

\* np.median of a non-empty tuple
Median(v) ==
    LET n == Len(v)
    IN  IF \E j \in 1..n : IsNaN(v[j]) THEN FNaN
        ELSE IF n % 2 = 1 THEN Kth(v, (n + 1) \div 2)
        ELSE Mean2(Kth(v, n \div 2), Kth(v, n \div 2 + 1))

\* np.floor of a finite float a >= 0
FFloor(a) ==
    IF a.sgn = 0 \/ a.exp >= 0 THEN a
    ELSE FRound(1, BShr(a.man, 0 - a.exp), 0, FALSE)

\* x / bg in float64
FQuot(x, bg) ==
    IF IsNaN(x) \/ IsNaN(bg) THEN FNaN
    ELSE IF IsInf(bg) THEN (IF IsInf(x) THEN FNaN ELSE FZero)
    ELSE IF bg.sgn = 0 THEN (IF x.sgn = 0 THEN FNaN ELSE FInf)
    ELSE IF IsInf(x) THEN FInf
    ELSE FDiv(x, bg)

\* Variant: floor division, x // bg.
Divide_floor(x, bg) ==
    LET q == FQuot(x, bg) IN IF IsNaN(q) \/ IsInf(q) THEN q ELSE FFloor(q)

\* opF1/bg1, cell by cell
Divide(x, bg) == FQuot(x, bg)

Min(a, b) == IF a <= b THEN a ELSE b

\* op[row, 0:win], as a tuple
Window(op, row, win) == Tup(op[row], Min(win, Cols(op)))

Baseline(op, row, win) == Median(Window(op, row, win))

Normalised(op, bg) ==
    LET T == Tup([r \in 0..(Rows(op) - 1) |->
                     Tup([c \in 0..(Cols(op) - 1) |-> Divide(op[r][c], bg)], Cols(op))],
                 Rows(op))
    IN  [r \in 0..(Rows(op) - 1) |-> [c \in 0..(Cols(op) - 1) |-> T[r + 1][c + 1]]]

\* 1 + k * 2^-52 for a k in 0..Base-1
FOnePlus(k) == [sgn |-> 1, man |-> <<k, 0, 0, 128>>, exp |-> -52]

\* The intensities the fields are drawn from: 0, 1, the two floats after 1,
\* and 3.
FluxVals == {FZero, FOne, FOnePlus(1), FOnePlus(2), FFromInt(3)}

\* A field: its first row any intensities, its further rows flat.
Fields ==
    UNION {{[r \in 0..(R - 1) |-> IF r = 0 THEN w ELSE [c \in 0..(C - 1) |-> u]] :
                w \in [0..(C - 1) -> FluxVals], u \in {FOne, FFromInt(3)}} :
           R \in RowCounts, C \in 1..NormCols}

InitNorm ==
    /\ LibIdle
    /\ wid2 = 0
    /\ ScriptIdle
    /\ nfield \in Fields
    /\ nrow \in 0..(Rows(nfield) - 1)
    /\ nwin \in 1..NormWin
    /\ nbg = << >>
    /\ nprev = nfield

Normalize ==
    /\ Len(nbg) < MaxNorm
    /\ LET bg == Baseline(nfield, nrow, nwin)
       IN  /\ nbg' = Append(nbg, bg)
           /\ nfield' = Normalised(nfield, bg)
    /\ nprev' = nfield
    /\ UNCHANGED <<libVars, wid2, scriptVars, nrow, nwin>>

NextNorm == Normalize

SpecNorm == InitNorm /\ [][NextNorm]_vars

---------------------------------------------------------------------------
\* The module-level script. Its arrays have 4096 and more points a side and
\* are carried by their side length only; time.time() is an input.

RingWid == 46
RingNRad == 100
WideWid == 100
WideNRad == 200
BaseNpts == 4096
BaselineRow == 2048
BaselineEnd == 100
PlotRow == 2048
Runs == 3

\* npts = 4096, 4096*2, 4096*3 of the three timed runs
RunNpts(k) == BaseNpts * k

InitScript ==
    /\ LibIdle
    /\ NormIdle
    /\ wid2 = 0
    /\ spc = "narrow_setup"
    /\ glob = NoGlobals
    /\ run = 0
    /\ now = 0

\* wid = 46; wid2 = 0.5 * wid; nRad = 100; wVal = linspace(-wid2, wid2, nRad)
NarrowSetup ==
    /\ spc = "narrow_setup"
    /\ wid2' = RingWid \div 2
    /\ glob' = [glob EXCEPT !.wid = RingWid, !.nRad = RingNRad, !.wValHalf = wid2']
    /\ spc' = "narrow_tables"
    /\ UNCHANGED <<libVars, normVars, run, now>>

\* tF1, tF2, tCP, tSE = interp1d(wVal, ...)
NarrowTables ==
    /\ spc = "narrow_tables"
    /\ glob' = [glob EXCEPT !.tF = glob.wValHalf]
    /\ spc' = "narrow_params"
    /\ UNCHANGED <<libVars, wid2, normVars, run, now>>

\* lam = 0.5; D = 43 * 150e6; npts = 4096
NarrowParams ==
    /\ spc = "narrow_params"
    /\ glob' = [glob EXCEPT !.npts = BaseNpts]
    /\ spc' = "narrow_build"
    /\ UNCHANGED <<libVars, wid2, normVars, run, now>>

\* apF1..apF4, FOV, gridSz = RingSeg_ap(lam, D, npts, wid, tF1..tSE)
NarrowBuild ==
    /\ spc = "narrow_build"
    /\ glob' = [glob EXCEPT !.callWid = glob.wid, !.callTable = glob.tF,
                            !.apSide = glob.npts]
    /\ spc' = "narrow_occ"
    /\ UNCHANGED <<libVars, wid2, normVars, run, now>>

\* opF1..opF4 = occ_lc(apF1..apF4)
NarrowOcc ==
    /\ spc = "narrow_occ"
    /\ glob' = [glob EXCEPT !.opSide = glob.apSide, !.normalised = FALSE]
    /\ spc' = "narrow_baseline"
    /\ UNCHANGED <<libVars, wid2, normVars, run, now>>

\* bg1..bg4 = np.median(opF1..opF4[2048, 0:100])
NarrowBaseline ==
    /\ spc = "narrow_baseline"
    /\ glob' = [glob EXCEPT !.bgRow = BaselineRow, !.bgWin = BaselineEnd]
    /\ spc' = "narrow_normalise"
    /\ UNCHANGED <<libVars, wid2, normVars, run, now>>

\* opF1..opF4 = opF1..opF4 / bg1..bg4
NarrowNormalise ==
    /\ spc = "narrow_normalise"
    /\ glob' = [glob EXCEPT !.normalised = TRUE]
    /\ spc' = "narrow_plot"
    /\ UNCHANGED <<libVars, wid2, normVars, run, now>>

\* plt.plot(t_sec, opF1..opF4[2048,:])
NarrowPlot ==
    /\ spc = "narrow_plot"
    /\ glob' = [glob EXCEPT !.plotRow = PlotRow]
    /\ spc' = "wide_setup"
    /\ UNCHANGED <<libVars, wid2, normVars, run, now>>

\* widW = 100; wid2 = 0.5 * widW; nRad = 200; wVal = linspace(-wid2, wid2, nRad)
WideSetup ==
    /\ spc = "wide_setup"
    /\ wid2' = WideWid \div 2
    /\ glob' = [glob EXCEPT !.widW = WideWid, !.nRad = WideNRad, !.wValHalf = wid2']
    /\ spc' = "wide_table"
    /\ UNCHANGED <<libVars, normVars, run, now>>

\* tF1W = interp1d(wVal, ...)
WideTable ==
    /\ spc = "wide_table"
    /\ glob' = [glob EXCEPT !.tF1W = glob.wValHalf]
    /\ spc' = "run_start"
    /\ run' = 1
    /\ UNCHANGED <<libVars, wid2, normVars, now>>

\* start_time = time.time(); npts = 4096 * run
RunStart ==
    /\ spc = "run_start"
    /\ \E t \in now..MaxClock :
          /\ now' = t
          /\ glob' = [glob EXCEPT !.start_time = t, !.npts = RunNpts(run)]
    /\ spc' = "run_build"
    /\ UNCHANGED <<libVars, wid2, normVars, run>>

\* apF1, FOV, gridSz = RingSeg_ap(lam, D, npts, widW, tF1W)
RunBuild ==
    /\ spc = "run_build"
    /\ glob' = [glob EXCEPT !.callWid = glob.widW, !.callTable = glob.tF1W,
                            !.apSide = glob.npts]
    /\ spc' = "run_occ"
    /\ UNCHANGED <<libVars, wid2, normVars, run, now>>

\* opF1 = occ_lc(apF1)
RunOcc ==
    /\ spc = "run_occ"
    /\ glob' = [glob EXCEPT !.opSide = glob.apSide, !.normalised = FALSE]
    /\ spc' = "run_baseline"
    /\ UNCHANGED <<libVars, wid2, normVars, run, now>>

\* bg1 = np.median(opF1[2048, 0:100])
RunBaseline ==
    /\ spc = "run_baseline"
    /\ glob' = [glob EXCEPT !.bgRow = BaselineRow, !.bgWin = BaselineEnd]
    /\ spc' = "run_normalise"
    /\ UNCHANGED <<libVars, wid2, normVars, run, now>>

\* opF1 = opF1/bg1
RunNormalise ==
    /\ spc = "run_normalise"
    /\ glob' = [glob EXCEPT !.normalised = TRUE]
    /\ spc' = "run_report"
    /\ UNCHANGED <<libVars, wid2, normVars, run, now>>

\* print("--- %s seconds ---" % (time.time() - start_time))
RunReport ==
    /\ spc = "run_report"
    /\ \E t \in now..MaxClock :
          /\ now' = t
          /\ glob' = [glob EXCEPT !.elapsed = t - glob.start_time]
    /\ spc' = "run_plot"
    /\ UNCHANGED <<libVars, wid2, normVars, run>>

\* plt.plot(t_sec, opF1[2048,:]); then the next run, or the end of the script
RunPlot ==
    /\ spc = "run_plot"
    /\ glob' = [glob EXCEPT !.plotRow = PlotRow]
    /\ IF run < Runs
       THEN spc' = "run_start" /\ run' = run + 1
       ELSE spc' = "done" /\ run' = run
    /\ UNCHANGED <<libVars, wid2, normVars, now>>

NextScript ==
    \/ NarrowSetup \/ NarrowTables \/ NarrowParams \/ NarrowBuild \/ NarrowOcc
    \/ NarrowBaseline \/ NarrowNormalise \/ NarrowPlot
    \/ WideSetup \/ WideTable
    \/ RunStart \/ RunBuild \/ RunOcc \/ RunBaseline \/ RunNormalise
    \/ RunReport \/ RunPlot

SpecScript == InitScript /\ [][NextScript]_vars

---------------------------------------------------------------------------
\* Properties of RingSeg_ap and occ_lc.

\* The column offset x[c] = (c - int(npts/2)) * gridSz of the last call, as
\* a float product of the returned gridSz, and the band test |x[c]| <= w/2.
ColK(a, c) == c - (a.npts \div 2)

Offset(a, c) == FMul(FFromInt(ColK(a, c)), ret.gridSz)

WithinHalf(a, c, w) == AbsLE(Offset(a, c), Half(w))

OnEdge(a, c, w) == WithinHalf(a, c, w) /\ AbsLE(Half(w), Offset(a, c))

ColsOf(a) == 0..(a.npts - 1)

TrEven(t_r) == t_r.neg = t_r.pos \/ t_r.cw >= t_r.w

\* |x - y| * 2^k <= x for two positive floats x and y * n, n a positive
\* integer below 2^15, all taken as exact numbers.
CloseTo(x, y, n, k) ==
    LET e0 == IF x.exp < y.exp THEN x.exp ELSE y.exp
        xa == BShl(x.man, x.exp - e0)
        ya == BShl(BMulSmall(y.man, n), y.exp - e0)
        d == IF BCmp(xa, ya) >= 0 THEN BSub(xa, ya) ELSE BSub(ya, xa)
    IN  BCmp(BShl(d, k), xa) <= 0

\* C1: in the aperture RingSeg_ap returns, a cell whose column offset is
\* beyond wid/2 is 1.0 and a cell whose offset is within wid/2, boundary
\* included, holds t_r of that offset.
C1_ApertureBand ==
    ret.status = "returned" =>
        \A c \in ColsOf(args) :
            LET x == Offset(args, c)
                v == IF AbsLE(x, Half(args.wid)) THEN TrVal(args.t_r, x) ELSE 1
            IN  \A r \in ColsOf(args) : ret.ap[r][c] = v

\* A returned aperture with a column exactly on the band's boundary that
\* holds the profile's value 0, and a column outside the band.
C1_Witness ==
    /\ ret.status = "returned"
    /\ \E c \in ColsOf(args) :
          /\ ColK(args, c) # 0
          /\ OnEdge(args, c, args.wid)
          /\ ret.ap[0][c] = 0
    /\ \E c \in ColsOf(args) : ~WithinHalf(args, c, args.wid) /\ ret.ap[0][c] = 1

\* C2 as stated: the returned field of view is the float gridSz * npts.
C2_FovIsGridTimesNpts ==
    ret.status = "returned" => ret.FOV = FMul(ret.gridSz, FFromInt(args.npts))

\* C2 up to rounding: the returned field of view and grid size are
\* positive and FOV = gridSz * npts within the rounding of the two
\* independent square roots: |FOV - gridSz * npts| <= FOV / 2^51.
C2_FovWithinRounding ==
    ret.status = "returned" =>
        /\ ret.FOV.sgn = 1 /\ ret.gridSz.sgn = 1
        /\ CloseTo(ret.FOV, ret.gridSz, args.npts, 51)

\* A returned call with npts = 3 whose FOV is not the float gridSz * npts.
C2_Witness ==
    /\ ret.status = "returned"
    /\ args.npts = 3
    /\ ret.FOV # FMul(ret.gridSz, FFromInt(args.npts))
    /\ ret.FOV # ret.gridSz

\* C3: for an aperture of even side npts, occ_lc's result holds at
\* ((ky + n2) mod npts, (kx + n2) mod npts) the intensity computed at
\* transform index (ky, kx): the shift is a permutation of the cells and
\* the zero-frequency term sits at (n2, n2).
C3_Recentre ==
    (occ.status = "returned" /\ Rows(apF) = Cols(apF) /\ Rows(apF) % 2 = 0) =>
        LET npts == Rows(apF)
            n2 == npts \div 2
        IN  /\ \A ky \in 0..(npts - 1), kx \in 0..(npts - 1) :
                  occ.field[(ky + n2) % npts][(kx + n2) % npts] = occ.pObs[ky][kx]
            /\ \A r \in 0..(npts - 1), c \in 0..(npts - 1) :
                  \E ky \in 0..(npts - 1), kx \in 0..(npts - 1) :
                      r = (ky + n2) % npts /\ c = (kx + n2) % npts
            /\ occ.field[n2][n2] = occ.pObs[0][0]

\* A 4 x 4 field whose transform differs between (0,0), (0,2) and (2,0),
\* so that a shift along either axis shows.
C3_Witness ==
    /\ occ.status = "returned"
    /\ Rows(apF) = 4 /\ Cols(apF) = 4
    /\ occ.pObs[0][0].val # occ.pObs[0][2].val
    /\ occ.pObs[0][0].val # occ.pObs[2][0].val
    /\ occ.field[2][2] = occ.pObs[0][0]

\* C4 as stated: occ_lc never returns a field for an aperture that is not
\* square or whose side is odd.
C4_FailsFast ==
    (occ.status # "none" /\ (Rows(apF) # Cols(apF) \/ Rows(apF) % 2 = 1)) =>
        occ.status = "raised"

\* C4 as amended: occ_lc checks nothing itself; it ends in numpy's
\* ValueError exactly when the aperture's column count differs from its row
\* count and neither is 1, and otherwise returns a field, odd sides included.
C4_NoShapeCheck ==
    occ.status # "none" =>
        /\ occ.status = "raised" <=>
              (Rows(apF) # Cols(apF) /\ Rows(apF) # 1 /\ Cols(apF) # 1)
        /\ occ.status = "raised" => occ.exc = "ValueError" /\ Rows(occ.field) = 0
        /\ occ.status = "returned" =>
              /\ Rows(occ.field) = Rows(apF)
              /\ Cols(occ.field) = IF Rows(apF) = 1 THEN Cols(apF) ELSE Rows(apF)

\* A 3 x 3 aperture for which occ_lc returned a 3 x 3 field.
C4_Witness ==
    /\ occ.status = "returned"
    /\ Rows(apF) = 3 /\ Cols(apF) = 3
    /\ Rows(occ.field) = 3

\* C5: when an in-band column offset lies outside the table of t_r,
\* RingSeg_ap ends in the error t_r raises and returns no aperture.
C5_DomainError ==
    (ret.status # "none"
        /\ \E c \in ColsOf(args) :
              WithinHalf(args, c, args.wid) /\ ~WithinHalf(args, c, args.t_r.w)) =>
        /\ ret.status = "raised"
        /\ ret.exc = "ValueError"
        /\ Rows(ret.ap) = 0
        /\ Rows(apF) = 0
        /\ pc = "failed"

\* A call whose band holds a column outside the table.
C5_Witness ==
    /\ ret.status = "raised"
    /\ args.npts = 4
    /\ \E c \in ColsOf(args) :
          WithinHalf(args, c, args.wid) /\ ~WithinHalf(args, c, args.t_r.w)
    /\ \E c \in ColsOf(args) : WithinHalf(args, c, args.t_r.w)

\* The call of RingSeg_ap, with an even npts and a t_r even in the offset,
\* whose aperture occ_lc has propagated.
EvenRun ==
    /\ ret.status = "returned" /\ occ.status = "returned"
    /\ args.npts % 2 = 0 /\ TrEven(args.t_r)

\* Two bins that hold the same float in every result of the call: they
\* stand for the same exact intensity and their floats are settled.
SameFloat(a, b) == a.val = b.val /\ a.tol = 0 /\ b.tol = 0

\* Two bins whose floats approximate the same exact intensity, each within
\* the bound of the call: the floats differ by at most 2 * tol * 2^-53.
SameWithinRounding(a, b) ==
    /\ a.val = b.val
    /\ a.tol = Tolerance(apF) /\ b.tol = Tolerance(apF)

C8_RowsIdentical ==
    ret.status = "returned" =>
        \A r1 \in ColsOf(args), r2 \in ColsOf(args), c \in ColsOf(args) :
            ret.ap[r1][c] = ret.ap[r2][c]

\* An aperture of several rows whose columns differ.
C8_Witness ==
    /\ ret.status = "returned"
    /\ args.npts = 4
    /\ ret.ap[0][0] # ret.ap[0][2]
    /\ ret.ap[3][2] = ret.ap[0][2]

\* C10: RingSeg_ap asks t_r only for offsets within wid/2 of the call's own
\* wid, whatever the module-level wid2 holds; with a table that covers
\* [-wid/2, +wid/2] the call never fails.
C10_QueriesWithinOwnWidth ==
    ret.status # "none" =>
        /\ \A x \in ret.queried : AbsLE(x, Half(args.wid))
        /\ args.t_r.w >= args.wid => ret.status = "returned"

\* A call that asked t_r at the very edge of a table as wide as the ring,
\* while the module-level wid2 held another value.
C10_Witness ==
    /\ ret.status = "returned"
    /\ args.t_r.w = args.wid
    /\ 2 * wid2 # args.wid
    /\ \E x \in ret.queried : AbsLE(x, Half(args.wid)) /\ AbsLE(Half(args.wid), x)

\* The baseline first divided by was a finite bg > 0.
PositiveBaseline == Len(nbg) >= 1 /\ nbg[1].sgn = 1 /\ ~IsInf(nbg[1])

\* The number of entries of the baseline window.
WindowLen == Min(nwin, Cols(nfield))

\* |y - x| <= 2^-50 * x for two non-negative floats: y is x up to rounding.
Near(x, y) == IF x.sgn = 0 THEN y = x ELSE y.sgn = 1 /\ CloseTo(x, y, 1, 50)

\* C7 as stated: once a field has been divided by a baseline bg > 0, the
\* median of the same baseline window is 1.0, and dividing again by the
\* recomputed baseline changes no value.
C7_NormalizeIdempotent ==
    PositiveBaseline =>
        /\ Baseline(nfield, nrow, nwin) = FOne
        /\ Len(nbg) >= 2 => nbg[Len(nbg)] = FOne /\ nfield = nprev

\* C7 as amended: once a field has been divided by a baseline bg > 0, the
\* median m of the same baseline window is 1.0 within floating tolerance,
\* |m - 1| <= 2^-51, and dividing again by the recomputed baseline changes
\* every value by at most 2^-50 of itself; for a window of odd length the
\* median is 1.0 bit for bit and the second division changes no value.
C7_IdempotentWithinRounding ==
    PositiveBaseline =>
        LET m == Baseline(nfield, nrow, nwin)
        IN  /\ m.sgn = 1 /\ CloseTo(FOne, m, 1, 51)
            /\ WindowLen % 2 = 1 => m = FOne
            /\ Len(nbg) >= 2 =>
                  /\ \A r \in 0..(Rows(nfield) - 1), c \in 0..(Cols(nfield) - 1) :
                        Near(nprev[r][c], nfield[r][c])
                  /\ WindowLen % 2 = 1 => nfield = nprev

\* A field normalised twice over a two-entry window holding 1 + 2^-52 and
\* 1 + 2^-51: the first baseline is 1 + 2^-51, the recomputed one is
\* 1 - 2^-53, and the second division changed a value.
C7_Witness ==
    /\ Len(nbg) = 2
    /\ WindowLen = 2
    /\ nbg[1] = FOnePlus(2)
    /\ nbg[2] = [sgn |-> 1, man |-> <<32767, 32767, 32767, 255>>, exp |-> -53]
    /\ nfield # nprev

\* C9: in every lightcurve run of the script the row the baseline is taken
\* from, and the row plotted, is the centre row npts/2 of that run's field.
C9_RowIsCentre ==
    /\ spc \in {"narrow_normalise", "narrow_plot", "run_normalise", "run_report", "run_plot"} =>
          glob.bgRow = glob.opSide \div 2
    /\ (spc = "done" \/ (spc = "run_start" /\ run > 1)) =>
          glob.plotRow = glob.opSide \div 2

====
